---- MODULE Spec2Model ----
(***************************************************************************)
(* Model of the chat <-> claude CLI relay: the session store               *)
(* (src/src/sessions.ts), the Claude bridge and message handler            *)
(* (src/src/scheduler.ts:427-628) and the heartbeat controller             *)
(* (src/unnamed/part_000).                                                 *)
(*                                                                         *)
(* Text is modelled as a sequence of one-character strings.                *)
(***************************************************************************)
EXTENDS Integers, Sequences, FiniteSets, TLC

\* ------------------------------------------------------------- bounds
\* inbound MESSAGE events handled in one run
MaxMsgs == 2
\* heartbeat ticks that reach the top of tick() in one run
MaxTicks == 1
\* padding lengths tried around the length cap of isHeartbeatOk
MaxExtra == 2

\* the wall clock runs from 0 to MaxTime minutes
MaxTime == 4
\* minutes a scheduled claude run can take
MaxDur == 2
\* cron expressions "every p minutes", p up to MaxPeriod
MaxPeriod == 2
\* schedule commands handled in one run
MaxCmds == 3
\* schedules kept in the store at a time
MaxJobs == 2

\* lines of the session transcript
MaxLog == 4
\* calls of the pruner in one run
MaxPrunes == 2

Msgs == 1..MaxMsgs
Ticks == (MaxMsgs + 1)..(MaxMsgs + MaxTicks)
Callers == Msgs \cup Ticks

\* getSession() of a space with no entry (undefined)
NoTok == 0
\* config.spaceName, the heartbeat's space
HB_SPACE == 1
\* a space the heartbeat is not configured for
OTHER_SPACE == 2
Convs == {HB_SPACE, OTHER_SPACE}
\* the session id stored for a space when the process starts, if any
OldTok(c) == c
\* the session id in the result of caller k's invocation: ids are unique
FreshTok(k) == Cardinality(Convs) + k
\* the cap of isHeartbeatOk
HEARTBEAT_MAX_LEN == 300

\* ------------------------------------------------------------- text
Min(S) == CHOOSE x \in S : \A y \in S : x <= y
Max(S) == CHOOSE x \in S : \A y \in S : x >= y
Rep(ch, n) == [i \in 1..n |-> ch]

SENTINEL == <<"H", "E", "A", "R", "T", "B", "E", "A", "T", "_", "O", "K">>
\* callClaudeFn resolved to null (the guarded wrapper found the space busy)
NullResp == <<"<null>">>
\* no response yet
NoResp == <<"<none>">>

\* the backtick character (the lexer of TLA+ strings rejects it)
BT == "<backtick>"

\* the character class of the replace() in isHeartbeatOk
StripSet == {"*", "_", BT, "#", "\"", "'", "\n", "\r"}
\* what String.prototype.trim removes, among the characters modelled
WhiteSpace == {" ", "\t", "\n", "\r"}

StripMarkdown(s) == SelectSeq(s, LAMBDA ch : ch \notin StripSet)

Trim(s) ==
  LET keep == {i \in 1..Len(s) : s[i] \notin WhiteSpace}
  IN IF keep = {} THEN <<>> ELSE SubSeq(s, Min(keep), Max(keep))

isHeartbeatOk_CapInverted(response) ==
  IF Len(response) > HEARTBEAT_MAX_LEN THEN TRUE
  ELSE Trim(StripMarkdown(response)) = SENTINEL

isHeartbeatOk(response) ==
  IF Len(response) > HEARTBEAT_MAX_LEN THEN FALSE
  ELSE Trim(StripMarkdown(response)) = SENTINEL

\* tick(), after its await of callClaudeFn: what it does with the response
TickOutcome_NoNullCheck(response) ==
  IF response # NullResp /\ isHeartbeatOk(response) THEN "prune" ELSE "deliver"

TickOutcome_Inverted(response) ==
  IF response = NullResp THEN "skip"
  ELSE IF isHeartbeatOk(response) THEN "deliver" ELSE "prune"

TickOutcome(response) ==
  IF response = NullResp THEN "skip"
  ELSE IF isHeartbeatOk(response) THEN "prune" ELSE "deliver"

VARIABLES
  sessions,   \* the map of sessions.ts: space -> session id (NoTok: no entry)
  conv,       \* caller -> the space its event / tick is for (0: not started)
  st,         \* caller -> where its handler is
  proc,       \* caller -> the claude child process of its callClaude chain
  launchLog,  \* caller -> the --resume argument of every spawn it made
  cause,      \* caller -> why its first process closed without a result
  resetMark,  \* space -> what followed its last acknowledged /reset
  hbTimers,   \* pending setTimeout(tick) timers of the heartbeat loop
  hbTicks,    \* heartbeat ticks fired so far
  hbResp,     \* tick -> the response its callClaudeFn resolved to
  clsResp,    \* classification check: the response text
  clsPhase,   \* classification check: "in" | "out"
  clsOk,      \* classification check: isHeartbeatOk(clsResp)
  clsOutcome, \* classification check: TickOutcome(clsResp)
  schFile,    \* data/schedules.json: the persisted sequence of schedules
  schNow,     \* the wall clock, in minutes
  schTick,    \* the scheduler pass: its phase, its array, its index, its now
  schFired,   \* schedule id -> <<time it last fired, outcome of that run>>
  schDeleted, \* space -> ids /unschedule reported deleted, not created since
  schOut,     \* the last schedule command handled and its reply
  prExists,   \* the transcript file of the heartbeat's session exists
  prLog,      \* the transcript file: its non-blank lines
  prOrig,     \* the transcript before the first prune
  prWrites,   \* writeFileSync calls of the pruner so far
  prRuns,     \* pruneHeartbeatFromTranscript calls so far
  sessFile,   \* data/sessions.json: absent, malformed, or a document
  stoSched,   \* data/schedules.json: "absent" | "malformed" | "ok"
  stoPhase,   \* the process: "down" | "up" | "fatal"
  stoLast,    \* the sessions map as of the last mutation that returned
  stoRet,     \* how the last setSession / deleteSession ended
  stoBoot,    \* what main() found in the two files when it last started
  stoRead,    \* what the last readSchedules() returned
  stoOps,     \* store operations so far
  splText,    \* splitMessage: its argument text
  splMax,     \* splitMessage: its argument maxLen
  splRem,     \* splitMessage: remaining
  splChunks,  \* splitMessage: chunks
  splCuts,    \* for each split made: whether it consumed a newline
  splPhase,   \* splitMessage: "in" | "loop" | "done"
  gHour,      \* heartbeat gate: the hour of the day in config.timezone
  gWin,       \* heartbeat gate: <<config.activeStart, config.activeEnd>>
  gDoc        \* data/heartbeat.md: whether it exists, and its characters

bridgeVars == <<sessions, conv, st, proc, launchLog, cause,
                resetMark, hbTimers, hbTicks, hbResp>>
clsVars == <<clsResp, clsPhase, clsOk, clsOutcome>>
schVars == <<schFile, schNow, schTick, schFired, schDeleted, schOut>>
prVars == <<prExists, prLog, prOrig, prWrites, prRuns>>
stoVars == <<sessFile, stoSched, stoPhase, stoLast, stoRet, stoBoot, stoRead,
             stoOps>>
splVars == <<splText, splMax, splRem, splChunks, splCuts, splPhase>>
gateVars == <<gHour, gWin, gDoc>>
vars == <<sessions, conv, st, proc, launchLog, cause,
          resetMark, hbTimers, hbTicks, hbResp,
          clsResp, clsPhase, clsOk, clsOutcome,
          schFile, schNow, schTick, schFired, schDeleted, schOut,
          prExists, prLog, prOrig, prWrites, prRuns,
          sessFile, stoSched, stoPhase, stoLast, stoRet, stoBoot, stoRead,
          stoOps,
          splText, splMax, splRem, splChunks, splCuts, splPhase,
          gHour, gWin, gDoc>>

NoProc == [tok |-> NoTok, ps |-> "none"]

\* what the CLI can answer a heartbeat prompt with
HbReplies == {SENTINEL, <<"a", "l", "e", "r", "t">>}
\* the reply text of an interactive message is not inspected by the relay
MsgReply == <<"r">>

ErrStates == {"err_exit", "err_timeout", "err_spawn"}

\* ------------------------------------------------ classification inputs
\* the sentinel without its underscore
NoUnderscore == <<"H", "E", "A", "R", "T", "B", "E", "A", "T", "O", "K">>
Cores == {SENTINEL, NoUnderscore, <<"o", "k">>}
Wrappers == {<<>>, <<"*", "*">>, <<BT>>, <<"\"">>, <<"'">>, <<"#", " ">>,
             <<"\n">>}
Fillers == {" ", "x"}
PadLens == (HEARTBEAT_MAX_LEN - MaxExtra)..(HEARTBEAT_MAX_LEN + MaxExtra)
PadTo(s, n, ch) == s \o Rep(ch, n - Len(s))
Wrapped == {pre \o core \o post : pre \in Wrappers, core \in Cores, post \in Wrappers}
Responses == Wrapped \cup {PadTo(w, n, ch) : w \in Wrapped, n \in PadLens, ch \in Fillers}

\* the characters the claim allows around the sentinel
WrapChars == StripSet \cup WhiteSpace
IsWrappedSentinel(r) ==
  \E i \in 1..(Len(r) - Len(SENTINEL) + 1) :
    /\ SubSeq(r, i, i + Len(SENTINEL) - 1) = SENTINEL
    /\ \A j \in 1..Len(r) : (j < i \/ j >= i + Len(SENTINEL)) => r[j] \in WrapChars

\* ------------------------------------------------------------- Init
InitBridge ==
  /\ sessions \in {[c \in Convs |-> IF c \in S THEN OldTok(c) ELSE NoTok] : S \in SUBSET Convs}
  /\ conv = [k \in Callers |-> 0]
  /\ st = [k \in Callers |-> "new"]
  /\ proc = [k \in Callers |-> NoProc]
  /\ launchLog = [k \in Callers |-> <<>>]
  /\ cause = [k \in Callers |-> "none"]
  /\ resetMark = [c \in Convs |-> "none"]
  /\ hbTimers = 1
  /\ hbTicks = 0
  /\ hbResp = [k \in Ticks |-> NoResp]

BridgeIdle ==
  /\ InitBridge
  /\ sessions = [c \in Convs |-> NoTok]

ClsOff ==
  /\ clsResp = <<>>
  /\ clsPhase = "off"
  /\ clsOk = FALSE
  /\ clsOutcome = "none"

TickIdle ==
  [phase |-> "idle", schedules |-> <<>>, idx |-> 0, now |-> 0, ran |-> "none",
   sent |-> "none", to |-> 0, resume |-> NoTok]
NoOut == [n |-> 0, kind |-> "none", space |-> 0, id |-> 0, cron |-> 0,
          ids |-> {}]

\* loadSchedules created an empty store; the scheduler loop is armed
SchOff ==
  /\ schFile = <<>>
  /\ schNow = 0
  /\ schTick = TickIdle
  /\ schFired = [i \in 1..MaxCmds |-> <<>>]
  /\ schDeleted = [c \in Convs |-> {}]
  /\ schOut = NoOut

PrOff ==
  /\ prExists = FALSE
  /\ prLog = <<>>
  /\ prOrig = <<>>
  /\ prWrites = 0
  /\ prRuns = 0

\* let sessions = {} of sessions.ts
EmptyMap == [c \in Convs |-> NoTok]
NoFile == [st |-> "absent", doc |-> <<>>]

StoOff ==
  /\ sessFile = NoFile
  /\ stoSched = "absent"
  /\ stoPhase = "down"
  /\ stoLast = EmptyMap
  /\ stoRet = "none"
  /\ stoBoot = [sess |-> "absent", sched |-> "absent"]
  /\ stoRead = "none"
  /\ stoOps = 0

GateOff ==
  /\ gHour = 0
  /\ gWin = <<0, 0>>
  /\ gDoc = [exists |-> FALSE, text |-> <<>>]

SplOff ==
  /\ splText = <<>>
  /\ splMax = 1
  /\ splRem = <<>>
  /\ splChunks = <<>>
  /\ splCuts = <<>>
  /\ splPhase = "off"

\* ------------------------------------------------------ session store
getSession(sess, spaceName) == sess[spaceName]
setSession(sess, spaceName, sessionId) == [sess EXCEPT ![spaceName] = sessionId]
deleteSession(sess, spaceName) == [sess EXCEPT ![spaceName] = NoTok]

\* ------------------------------------------------------- Claude bridge
\* callClaude up to spawn(): --resume is the stored session id, if any
Spawned_BehindHeartbeat(sess, spaceName) ==
  IF spaceName = HB_SPACE /\ \E k \in Ticks : proc[k].ps = "run"
  THEN NoProc
  ELSE [tok |-> getSession(sess, spaceName), ps |-> "run"]

Spawned(sess, spaceName) == [tok |-> getSession(sess, spaceName), ps |-> "run"]

\* proc.on("close"): the session map it leaves. p is the closing process,
\* hasResult whether a result line was read, sid the result's session_id
CloseSessions_NoDelete(sess, spaceName, p, hasResult, sid) ==
  IF hasResult
  THEN IF sid # NoTok THEN setSession(sess, spaceName, sid) ELSE sess
  ELSE sess

CloseSessions(sess, spaceName, p, hasResult, sid) ==
  IF hasResult
  THEN IF sid # NoTok THEN setSession(sess, spaceName, sid) ELSE sess
  ELSE IF p.tok # NoTok THEN deleteSession(sess, spaceName) ELSE sess

\* proc.on("close"): the process of the chain afterwards (the retry, or none)
CloseProc(sess, spaceName, p, hasResult) ==
  IF ~hasResult /\ p.tok # NoTok THEN Spawned(sess, spaceName) ELSE NoProc

\* proc.on("close"): how it settles the promise of callClaude
CloseSettle(p, hasResult) ==
  IF hasResult THEN "ok"
  ELSE IF p.tok # NoTok THEN "pending" ELSE "err_exit"

\* why a process can close without a result
\* ("invalid": the CLI rejected the --resume id; "other": it crashed, was
\* killed by the timeout, or could not be spawned)
WhySet(p) ==
  IF p.ps = "run" /\ p.tok # NoTok THEN {"invalid", "other"} ELSE {"other"}

TickSt(outcome) ==
  CASE outcome = "skip" -> "busy"
    [] outcome = "prune" -> "pruned"
    [] outcome = "deliver" -> "hb_sending"

\* the continuation of the caller once its promise settles: handleEvent
\* after `await callClaude` for a message, tick() after `await callClaudeFn`
AfterSettle_SilentTimeout(k, how, text) ==
  IF st[k] # "awaiting" \/ how \in {"pending", "err_timeout"} THEN st[k]
  ELSE IF k \in Msgs THEN (IF how = "ok" THEN "delivered" ELSE how)
  ELSE IF how = "ok" THEN TickSt(TickOutcome(text)) ELSE "hb_error"

AfterSettle(k, how, text) ==
  IF st[k] # "awaiting" \/ how = "pending" THEN st[k]
  ELSE IF k \in Msgs THEN (IF how = "ok" THEN "delivered" ELSE how)
  ELSE IF how = "ok" THEN TickSt(TickOutcome(text)) ELSE "hb_error"

\* tick() ends with setTimeout(tick) on every path but the pending ones
TickEnded == {"window", "empty", "busy", "pruned", "hb_error", "hb_delivered",
              "hb_senderr"}
Rearm_NotOnError(k, newst) ==
  IF k \in Ticks /\ st[k] # newst
       /\ newst \in TickEnded \ {"hb_error", "hb_senderr"}
  THEN 1 ELSE 0

Rearm(k, newst) ==
  IF k \in Ticks /\ st[k] # newst /\ newst \in TickEnded THEN 1 ELSE 0

\* the guard of the heartbeat's callClaude wrapper: an interactive
\* invocation for the space is in flight
GuardBusy(spaceName) ==
  \E m \in Msgs : conv[m] = spaceName /\ proc[m] # NoProc

MarkLaunch(rm, spaceName, tok) ==
  IF rm[spaceName] = "acked"
  THEN [rm EXCEPT ![spaceName] = IF tok = NoTok THEN "none" ELSE "resumed"]
  ELSE rm

InOrder(m) == IF m = 1 THEN TRUE ELSE st[m - 1] # "new"

\* handleEvent, general path: callClaude(input, spaceName)
DispatchChat(m, c) ==
  /\ st[m] = "new" /\ InOrder(m)
  /\ LET p == Spawned(sessions, c) IN
       /\ proc' = [proc EXCEPT ![m] = p]
       /\ launchLog' = [launchLog EXCEPT ![m] = <<p.tok>>]
       /\ resetMark' = MarkLaunch(resetMark, c, p.tok)
  /\ conv' = [conv EXCEPT ![m] = c]
  /\ st' = [st EXCEPT ![m] = "awaiting"]
  /\ UNCHANGED <<sessions, cause, hbTimers, hbTicks, hbResp, clsVars, schVars, prVars, stoVars, splVars,
                 gateVars>>

\* handleEvent, "/reset": deleteSession, then the acknowledgement is sent
DispatchReset(m, c) ==
  /\ st[m] = "new" /\ InOrder(m)
  /\ sessions' = deleteSession(sessions, c)
  /\ conv' = [conv EXCEPT ![m] = c]
  /\ st' = [st EXCEPT ![m] = "acking"]
  /\ UNCHANGED <<proc, launchLog, cause, resetMark, hbTimers, hbTicks, hbResp,
                 clsVars, schVars, prVars, stoVars, splVars, gateVars>>

\* the acknowledgement of "/reset" has been sent
ResetAck(m) ==
  /\ st[m] = "acking"
  /\ st' = [st EXCEPT ![m] = "acked"]
  /\ resetMark' = [resetMark EXCEPT ![conv[m]] = "acked"]
  /\ UNCHANGED <<sessions, conv, proc, launchLog, cause, hbTimers, hbTicks,
                 hbResp, clsVars, schVars, prVars, stoVars, splVars, gateVars>>

\* proc.on("close") of caller k's process
Close(k, hasResult, why, text) ==
  /\ proc[k] # NoProc
  /\ hasResult => why = "none"
  /\ ~hasResult => why \in WhySet(proc[k])
  /\ LET p == proc[k]
         c == conv[k]
         sid == FreshTok(k)
         sess2 == CloseSessions(sessions, c, p, hasResult, sid)
         p2 == CloseProc(sess2, c, p, hasResult)
         newst == AfterSettle(k, CloseSettle(p, hasResult), text)
     IN /\ sessions' = sess2
        /\ proc' = [proc EXCEPT ![k] = p2]
        /\ launchLog' = IF p2 # NoProc
                        THEN [launchLog EXCEPT ![k] = Append(@, p2.tok)]
                        ELSE launchLog
        /\ resetMark' = IF p2 # NoProc THEN MarkLaunch(resetMark, c, p2.tok)
                        ELSE resetMark
        /\ cause' = IF p2 # NoProc /\ cause[k] = "none"
                    THEN [cause EXCEPT ![k] = why] ELSE cause
        /\ st' = [st EXCEPT ![k] = newst]
        /\ hbTimers' = hbTimers + Rearm(k, newst)
        /\ hbResp' = IF k \in Ticks /\ st[k] = "awaiting" /\ hasResult
                     THEN [hbResp EXCEPT ![k] = text] ELSE hbResp
  /\ UNCHANGED <<conv, hbTicks, clsVars, schVars, prVars, stoVars, splVars,
                 gateVars>>

\* the setTimeout of callClaude fires: proc.kill(), reject(timed out)
Timeout(k) ==
  /\ proc[k].ps = "run"
  /\ proc' = [proc EXCEPT ![k].ps = "killed"]
  /\ LET newst == AfterSettle(k, "err_timeout", MsgReply) IN
       /\ st' = [st EXCEPT ![k] = newst]
       /\ hbTimers' = hbTimers + Rearm(k, newst)
  /\ UNCHANGED <<sessions, conv, launchLog, cause, resetMark, hbTicks, hbResp,
                 clsVars, schVars, prVars, stoVars, splVars, gateVars>>

\* spawn() fails: proc.on("error") rejects, and the "close" that child_process
\* emits right after it for a process that never started runs the close
\* handler with no result
SpawnError(k) ==
  /\ proc[k].ps = "run"
  /\ LET p == proc[k]
         c == conv[k]
         sess2 == CloseSessions(sessions, c, p, FALSE, NoTok)
         p2 == CloseProc(sess2, c, p, FALSE)
         newst == AfterSettle(k, "err_spawn", MsgReply)
     IN /\ sessions' = sess2
        /\ proc' = [proc EXCEPT ![k] = p2]
        /\ launchLog' = IF p2 # NoProc
                        THEN [launchLog EXCEPT ![k] = Append(@, p2.tok)]
                        ELSE launchLog
        /\ resetMark' = IF p2 # NoProc THEN MarkLaunch(resetMark, c, p2.tok)
                        ELSE resetMark
        /\ cause' = IF p2 # NoProc /\ cause[k] = "none"
                    THEN [cause EXCEPT ![k] = "other"] ELSE cause
        /\ st' = [st EXCEPT ![k] = newst]
        /\ hbTimers' = hbTimers + Rearm(k, newst)
  /\ UNCHANGED <<conv, hbTicks, hbResp, clsVars, schVars, prVars, stoVars, splVars,
                 gateVars>>

\* ------------------------------------------------------ heartbeat loop
\* tick() up to its await of callClaudeFn
HbTick(inWindow, hasChecklist) ==
  /\ hbTimers > 0
  /\ hbTicks < MaxTicks
  /\ LET k == MaxMsgs + hbTicks + 1
         invoke == inWindow /\ hasChecklist
         busy == GuardBusy(HB_SPACE)
         p == Spawned(sessions, HB_SPACE)
         newst == IF ~inWindow THEN "window"
                  ELSE IF ~hasChecklist THEN "empty"
                  ELSE IF busy THEN TickSt(TickOutcome(NullResp))
                  ELSE "awaiting"
     IN /\ hbTicks' = hbTicks + 1
        /\ conv' = [conv EXCEPT ![k] = HB_SPACE]
        /\ st' = [st EXCEPT ![k] = newst]
        /\ hbTimers' = hbTimers - 1 + Rearm(k, newst)
        /\ hbResp' = IF invoke /\ busy THEN [hbResp EXCEPT ![k] = NullResp] ELSE hbResp
        /\ proc' = IF invoke /\ ~busy THEN [proc EXCEPT ![k] = p] ELSE proc
        /\ launchLog' = IF invoke /\ ~busy
                        THEN [launchLog EXCEPT ![k] = <<p.tok>>] ELSE launchLog
        /\ resetMark' = IF invoke /\ ~busy
                        THEN MarkLaunch(resetMark, HB_SPACE, p.tok) ELSE resetMark
  /\ UNCHANGED <<sessions, cause, clsVars, schVars, prVars, stoVars, splVars,
                 gateVars>>

\* tick(): `await sendFn(config.spaceName, response)` returns or throws
HbSendDone(k, ok) ==
  /\ k \in Ticks
  /\ st[k] = "hb_sending"
  /\ LET newst == IF ok THEN "hb_delivered" ELSE "hb_senderr" IN
       /\ st' = [st EXCEPT ![k] = newst]
       /\ hbTimers' = hbTimers + Rearm(k, newst)
  /\ UNCHANGED <<sessions, conv, proc, launchLog, cause, resetMark, hbTicks,
                 hbResp, clsVars, schVars, prVars, stoVars, splVars, gateVars>>

Init == InitBridge /\ ClsOff /\ SchOff /\ PrOff /\ StoOff /\ SplOff /\ GateOff

Next ==
  \/ \E m \in Msgs, c \in Convs : DispatchChat(m, c)
  \/ \E m \in Msgs, c \in Convs : DispatchReset(m, c)
  \/ \E m \in Msgs : ResetAck(m)
  \/ \E k \in Callers, hasResult \in BOOLEAN,
        why \in {"none", "invalid", "other"},
        text \in HbReplies \cup {MsgReply} :
       /\ text \in (IF k \in Ticks THEN HbReplies ELSE {MsgReply})
       /\ (~hasResult => text \in {MsgReply, SENTINEL})
       /\ Close(k, hasResult, why, text)
  \/ \E k \in Callers : Timeout(k)
  \/ \E k \in Callers : SpawnError(k)
  \/ \E w \in BOOLEAN, h \in BOOLEAN : HbTick(w, h)
  \/ \E k \in Ticks, ok \in BOOLEAN : HbSendDone(k, ok)

Spec == Init /\ [][Next]_vars

\* --------------------------------------------------- bridge properties
InFlight(c) == {k \in Callers : conv[k] = c /\ proc[k].ps = "run"}

\* C1: for every conversation, at most one AI invocation is in flight at any
\* moment, so invocations for one conversation never overlap.
C1_AtMostOneInFlight == \A c \in Convs : Cardinality(InFlight(c)) <= 1

\* C2: a heartbeat tick that reaches its invocation step while an interactive
\* invocation for its space is in flight is skipped: it spawns nothing, sends
\* nothing, prunes nothing, changes no session, arms the next tick's timer,
\* and never runs later on.
C2_BusyTickSkipped ==
  [][\A k \in Ticks :
       /\ (st[k] = "new" /\ st'[k] \notin {"new", "window", "empty"}
             /\ GuardBusy(HB_SPACE))
            => (/\ st'[k] = "busy"
                /\ proc' = proc
                /\ launchLog' = launchLog
                /\ sessions' = sessions
                /\ hbTimers' = hbTimers)
       /\ (st[k] = "busy") => (st'[k] = "busy" /\ proc'[k] = NoProc)]_vars

C2_Witness == \E k \in Ticks : st[k] = "busy" /\ hbResp[k] = NullResp

Sending == {"hb_sending", "hb_delivered", "hb_senderr"}

\* C6: a tick that obtained a response prunes iff the response was classified
\* as the sentinel and sends the response iff it was not: exactly one of both.
C6_PruneXorDeliver ==
  \A k \in Ticks :
    (hbResp[k] # NoResp /\ hbResp[k] # NullResp) =>
      /\ (st[k] = "pruned") <=> isHeartbeatOk(hbResp[k])
      /\ (st[k] \in Sending) <=> ~isHeartbeatOk(hbResp[k])
      /\ st[k] \in Sending \cup {"pruned"}

C6_Witness ==
  \E k \in Ticks : hbResp[k] \in HbReplies /\ st[k] = "hb_delivered"

Answered(k) == IF k \in Msgs THEN {"delivered"} ELSE {"pruned", "hb_sending"}

\* C7: when the CLI rejects the stored resume id of an invocation, the stored
\* id is cleared and the same caller retries at once without --resume; when
\* that retry ends, its reply is delivered exactly if its fresh session id
\* was stored; the caller spawns nothing more, and no later spawn of any
\* caller passes the rejected id.
C7_StaleRetry ==
  [][\A k \in Callers :
       /\ (cause[k] = "none" /\ cause'[k] = "invalid")
            => (/\ sessions'[conv[k]] = NoTok
                /\ proc'[k] = [tok |-> NoTok, ps |-> "run"]
                /\ Len(launchLog[k]) = 1
                /\ launchLog[k][1] # NoTok
                /\ launchLog'[k] = Append(launchLog[k], NoTok))
       /\ (cause[k] = "invalid" /\ proc[k].ps = "run" /\ proc'[k] = NoProc)
            => (/\ st[k] = "awaiting"
                /\ (st'[k] \in Answered(k)) <=> (sessions'[conv[k]] = FreshTok(k))
                /\ st'[k] \in Answered(k) \cup ErrStates \cup {"hb_error"})
       /\ (cause[k] = "invalid") =>
            (/\ launchLog'[k] = launchLog[k]
             /\ \A j \in Callers :
                  Len(launchLog'[j]) > Len(launchLog[j])
                    => launchLog'[j][Len(launchLog'[j])] # launchLog[k][1])]_vars

C7_Witness ==
  \E m \in Msgs :
    /\ cause[m] = "invalid"
    /\ st[m] = "delivered"
    /\ sessions[conv[m]] = FreshTok(m)

\* C8 as stated: at most one retry, only without --resume; an error is
\* surfaced only after the retry without --resume has also failed; a failure
\* without --resume is surfaced without a retry.
C8_ErrorOnlyAfterRetry ==
  \A m \in Msgs :
    /\ Len(launchLog[m]) <= 2
    /\ Len(launchLog[m]) = 2 => launchLog[m][2] = NoTok
    /\ (st[m] \in ErrStates /\ launchLog[m][1] = NoTok) => Len(launchLog[m]) = 1
    /\ (st[m] \in ErrStates /\ launchLog[m][1] # NoTok)
         => (Len(launchLog[m]) = 2 /\ proc[m] = NoProc)

\* C9: after an acknowledged /reset of a space, the next invocation started
\* for the space carries no resume id.
C9_FreshAfterReset == \A c \in Convs : resetMark[c] # "resumed"

\* C10: a stored session id is removed only by /reset or because the CLI
\* reported the resume id invalid.
C10_RemovedOnlyByResetOrInvalid ==
  [][\A c \in Convs :
       (sessions[c] # NoTok /\ sessions'[c] = NoTok) =>
         \/ \E m \in Msgs : st[m] = "new" /\ st'[m] = "acking" /\ conv'[m] = c
         \/ \E k \in Callers :
              conv[k] = c /\ cause[k] = "none" /\ cause'[k] = "invalid"]_vars

HbInFlight == \E k \in Ticks : proc[k].ps = "run"

\* C19: a message for the heartbeat's space that is next in line can be
\* dispatched in every state in which a heartbeat invocation is in flight,
\* and when it is, its claude process is spawned in that very step and the
\* tick and its process are left as they were.
C19_InteractiveNotDelayed ==
  /\ [](\A m \in Msgs :
          (HbInFlight /\ st[m] = "new" /\ InOrder(m))
            => ENABLED DispatchChat(m, HB_SPACE))
  /\ [][\A m \in Msgs :
          (HbInFlight /\ st[m] = "new" /\ st'[m] = "awaiting"
             /\ conv'[m] = HB_SPACE)
            => (/\ proc'[m].ps = "run"
                /\ \A k \in Ticks : proc'[k] = proc[k] /\ st'[k] = st[k])]_vars

C19_Witness ==
  \E m \in Msgs, k \in Ticks :
    /\ conv[m] = HB_SPACE
    /\ st[m] = "awaiting"
    /\ proc[m].ps = "run"
    /\ Len(launchLog[m]) = 1
    /\ proc[k].ps = "run"

\* C31: when the invocation of a message times out, or its process ends
\* without a result and no retry is left, handleEvent reports the error to
\* the space (the message is in an error state); and whenever a message is in
\* an error state the next message for its space can be dispatched, and its
\* dispatch spawns a claude process in that very step.
C31_UsableAfterFailure ==
  /\ [][\A m \in Msgs :
          /\ (st[m] = "awaiting" /\ proc[m].ps = "run"
                /\ proc'[m].ps = "killed") => st'[m] = "err_timeout"
          /\ (st[m] = "awaiting" /\ proc[m].ps = "run" /\ proc'[m] = NoProc
                /\ sessions'[conv[m]] # FreshTok(m)) => st'[m] \in ErrStates
          /\ (\E j \in Msgs : st[j] \in ErrStates /\ j < m
                                /\ st[m] = "new" /\ st'[m] = "awaiting"
                                /\ conv'[m] = conv[j])
               => proc'[m].ps = "run"]_vars
  /\ [](\A j, m \in Msgs :
          (st[j] \in ErrStates /\ st[m] = "new" /\ InOrder(m))
            => ENABLED DispatchChat(m, conv[j]))

C31_Witness ==
  \E j, m \in Msgs :
    /\ j < m
    /\ st[j] = "err_timeout"
    /\ launchLog[j][1] # NoTok
    /\ conv[m] = conv[j]
    /\ st[m] = "awaiting"
    /\ proc[m].ps = "run"
    /\ launchLog[m] = <<NoTok>>

\* the ticks that are inside tick(), at one of its awaits
TicksRunning == {k \in Ticks : st[k] \in {"awaiting", "hb_sending"}}

\* C39: every tick arms exactly one next tick, whatever its outcome: at any
\* moment either one tick is inside tick() and no timer is pending, or no
\* tick is running and exactly one timer is pending; a step that ends a tick
\* arms one timer.
C39_OneNextTick ==
  /\ [](hbTimers + Cardinality(TicksRunning) = 1)
  /\ [][\A k \in Ticks :
          /\ (k \in TicksRunning /\ st'[k] # st[k] /\ st'[k] \notin {"hb_sending"})
               => (st'[k] \in TickEnded /\ hbTimers = 0 /\ hbTimers' = 1)
          /\ (st[k] = "new" /\ st'[k] \notin {"new", "awaiting"})
               => (st'[k] \in TickEnded /\ hbTimers = 1 /\ hbTimers' = 1)
          /\ (st[k] \in TickEnded) => st'[k] = st[k]]_vars

C39_Witness ==
  \E k \in Ticks :
    /\ st[k] = "hb_error"
    /\ proc[k].ps = "killed"
    /\ hbTimers = 1

\* C40: once the invocation of a message has failed with the timeout error,
\* no further claude process is launched for the message and its close
\* handler stores no session id.
C40_NothingAfterTimeout ==
  [][\A m \in Msgs :
       (st[m] = "err_timeout" /\ proc'[m] # proc[m]) =>
         /\ launchLog'[m] = launchLog[m]
         /\ sessions'[conv[m]] \in {sessions[conv[m]], NoTok}]_vars

\* ------------------------------------------------------------ scheduler
\* A cron expression is modelled by its period p in minutes: it occurs at
\* the multiples of p. BadCron is an expression CronExpressionParser rejects.
BadCron == MaxPeriod + 1
Crons == 1..MaxPeriod
ValidCron_Lenient(cron) == cron \in 1..BadCron

ValidCron(cron) == cron \in Crons
IsOcc(cron, t) == t % cron = 0

\* CronExpressionParser.parse(cron, {tz: "UTC"}).next() at time now: the
\* first occurrence strictly after now
computeNextRun_Inclusive(cron, now) ==
  IF now % cron = 0 THEN now ELSE (now \div cron + 1) * cron

computeNextRun(cron, now) == (now \div cron + 1) * cron

\* schedules.reduce((max, s) => Math.max(max, s.id + 1), 1)
nextId_Count(schedules) == Len(schedules) + 1

nextId(schedules) ==
  Max({1} \cup {schedules[i].id + 1 : i \in 1..Len(schedules)})

\* schedules.findIndex(s => s.id === id && s.spaceName === spaceName),
\* 0 for -1
findIndex_AnySpace(schedules, id, spaceName) ==
  LET hit == {i \in 1..Len(schedules) : schedules[i].id = id}
  IN IF hit = {} THEN 0 ELSE Min(hit)

findIndex(schedules, id, spaceName) ==
  LET hit == {i \in 1..Len(schedules) :
                schedules[i].id = id /\ schedules[i].spaceName = spaceName}
  IN IF hit = {} THEN 0 ELSE Min(hit)

\* schedules.splice(idx, 1)
splice(schedules, idx) ==
  SubSeq(schedules, 1, idx - 1) \o SubSeq(schedules, idx + 1, Len(schedules))

\* the ids "/schedules" lists for a space:
\* schedules.filter(s => s.spaceName === spaceName && s.enabled)
active_IgnoresEnabled(schedules, spaceName) ==
  {schedules[i].id : i \in {j \in 1..Len(schedules) :
      schedules[j].spaceName = spaceName}}

active(schedules, spaceName) ==
  {schedules[i].id : i \in {j \in 1..Len(schedules) :
      schedules[j].spaceName = spaceName /\ schedules[j].enabled}}

\* the loop of tick(): the first schedule at or after index from that is
\* enabled and due at the pass's now (0: none)
NextDue_IgnoresNextRun(schedules, from, now) ==
  LET due == {i \in from..Len(schedules) : schedules[i].enabled}
  IN IF due = {} THEN 0 ELSE Min(due)

NextDue_IgnoresEnabled(schedules, from, now) ==
  LET due == {i \in from..Len(schedules) : schedules[i].nextRun <= now}
  IN IF due = {} THEN 0 ELSE Min(due)

NextDue_Last(schedules, from, now) ==
  LET due == {i \in from..Len(schedules) :
                schedules[i].enabled /\ schedules[i].nextRun <= now}
  IN IF due = {} THEN 0 ELSE Max(due)

NextDue(schedules, from, now) ==
  LET due == {i \in from..Len(schedules) :
                schedules[i].enabled /\ schedules[i].nextRun <= now}
  IN IF due = {} THEN 0 ELSE Min(due)

\* execFileSync blocks the event loop: no handler runs meanwhile
LoopFree == schTick.phase # "exec"

\* handleScheduleCommand, "/schedules"
CmdList(c) ==
  /\ LoopFree
  /\ schOut.n < MaxCmds
  /\ schOut' = [n |-> schOut.n + 1,
                kind |-> IF active(schFile, c) = {} THEN "none" ELSE "list",
                space |-> c, id |-> 0, cron |-> 0,
                ids |-> active(schFile, c)]
  /\ UNCHANGED <<schFile, schNow, schTick, schFired, schDeleted,
                 bridgeVars, clsVars, prVars, stoVars, splVars, gateVars>>

\* handleScheduleCommand, "/unschedule <id>"
CmdUnschedule(c, id) ==
  /\ LoopFree
  /\ schOut.n < MaxCmds
  /\ LET idx == findIndex(schFile, id, c) IN
       IF idx = 0
       THEN /\ schOut' = [n |-> schOut.n + 1, kind |-> "notfound", space |-> c,
                          id |-> id, cron |-> 0, ids |-> {}]
            /\ UNCHANGED <<schFile, schDeleted>>
       ELSE /\ schFile' = splice(schFile, idx)
            /\ schOut' = [n |-> schOut.n + 1, kind |-> "deleted", space |-> c,
                          id |-> id, cron |-> 0, ids |-> {}]
            /\ schDeleted' = [schDeleted EXCEPT ![c] = @ \cup {id}]
  /\ UNCHANGED <<schNow, schTick, schFired, bridgeVars, clsVars, prVars, stoVars, splVars,
                 gateVars>>

\* handleScheduleCommand, "/schedule "<cron>" <prompt>"
CmdSchedule(c, cron) ==
  /\ LoopFree
  /\ schOut.n < MaxCmds
  /\ Len(schFile) < MaxJobs
  /\ IF ValidCron(cron)
     THEN LET nr == computeNextRun(cron, schNow)
              id == nextId(schFile)
              schedule == [id |-> id, cron |-> cron, spaceName |-> c,
                           enabled |-> TRUE, nextRun |-> nr]
          IN /\ schFile' = Append(schFile, schedule)
             /\ schOut' = [n |-> schOut.n + 1, kind |-> "created", space |-> c,
                           id |-> id, cron |-> cron, ids |-> {}]
             /\ schDeleted' = [c2 \in Convs |-> schDeleted[c2] \ {id}]
             /\ schFired' = [schFired EXCEPT ![id] = <<>>]
     ELSE /\ schOut' = [n |-> schOut.n + 1, kind |-> "invalid", space |-> c,
                        id |-> 0, cron |-> cron, ids |-> {}]
          /\ UNCHANGED <<schFile, schDeleted, schFired>>
  /\ UNCHANGED <<schNow, schTick, bridgeVars, clsVars, prVars, stoVars, splVars,
                 gateVars>>

\* a pass of tick() from a schedule found due: execFileSync has started;
\* resume is the --resume argument of its claude command line (none)
Fire_Resumes(schedules, idx, now) ==
  [phase |-> "exec", schedules |-> schedules, idx |-> idx, now |-> now,
   ran |-> "none", sent |-> "none", to |-> 0,
   resume |-> getSession(sessions, schedules[idx].spaceName)]

Fire(schedules, idx, now) ==
  [phase |-> "exec", schedules |-> schedules, idx |-> idx, now |-> now,
   ran |-> "none", sent |-> "none", to |-> 0, resume |-> NoTok]

\* the setTimeout of the scheduler fires: tick() up to its first
\* execFileSync, or to its end when nothing is due
SchedTick ==
  /\ schTick.phase = "idle"
  /\ LET schedules == schFile
         d == NextDue(schedules, 1, schNow)
     IN IF d = 0
        THEN UNCHANGED <<schTick, schFired>>
        ELSE /\ schTick' = Fire(schedules, d, schNow)
             /\ schFired' = [schFired EXCEPT ![schedules[d].id] = <<schNow>>]
  /\ UNCHANGED <<schFile, schNow, schDeleted, schOut, bridgeVars, clsVars,
                 prVars, stoVars, splVars, gateVars>>

\* execFileSync returns (ok) or throws after d minutes; tick() then awaits
\* sendFn(schedule.spaceName, ...) with the result, or with the failure
\* message
SchedExecEnd(d, ok) ==
  /\ schTick.phase = "exec"
  /\ schNow + d <= MaxTime
  /\ schNow' = schNow + d
  /\ schTick' = [schTick EXCEPT
                  !.phase = "sending",
                  !.ran = IF ok THEN "ok" ELSE "fail",
                  !.sent = IF ok THEN "result" ELSE "failure",
                  !.to = schTick.schedules[schTick.idx].spaceName]
  /\ schFired' = [schFired EXCEPT ![schTick.schedules[schTick.idx].id] =
                    Append(@, IF ok THEN "ok" ELSE "fail")]
  /\ UNCHANGED <<schFile, schDeleted, schOut, bridgeVars, clsVars, prVars, stoVars, splVars,
                 gateVars>>

\* sendFn of the result rejects: the catch of tick() sends the failure
\* message instead (a rejection of that send is swallowed)
SchedSendFail ==
  /\ schTick.phase = "sending"
  /\ schTick.sent = "result"
  /\ schTick' = [schTick EXCEPT !.sent = "failure"]
  /\ UNCHANGED <<schFile, schNow, schFired, schDeleted, schOut, bridgeVars,
                 clsVars, prVars, stoVars, splVars, gateVars>>

\* sendFn settles: tick() sets nextRun and goes on to the next due schedule
\* or, after the loop, to writeSchedules and setTimeout(tick); wr is whether
\* writeFileSync succeeds (when it throws, tick() ends without its setTimeout)
SchedSendDone(wr) ==
  /\ schTick.phase = "sending"
  /\ LET i == schTick.idx
         cron == schTick.schedules[i].cron
         schedules ==
           IF ValidCron(cron)
           THEN [schTick.schedules EXCEPT
                   ![i].nextRun = computeNextRun(cron, schNow)]
           ELSE [schTick.schedules EXCEPT ![i].enabled = FALSE]
         d == NextDue(schedules, i + 1, schTick.now)
     IN IF d = 0
        THEN /\ schFile' = IF wr THEN schedules ELSE schFile
             /\ schTick' = IF wr THEN TickIdle
                            ELSE [TickIdle EXCEPT !.phase = "stopped"]
             /\ UNCHANGED schFired
        ELSE /\ schTick' = Fire(schedules, d, schTick.now)
             /\ schFired' = [schFired EXCEPT ![schedules[d].id] = <<schNow>>]
             /\ UNCHANGED schFile
  /\ UNCHANGED <<schNow, schDeleted, schOut, bridgeVars, clsVars, prVars, stoVars, splVars,
                 gateVars>>

\* a minute passes
ClockTick ==
  /\ LoopFree
  /\ schNow < MaxTime
  /\ schNow' = schNow + 1
  /\ UNCHANGED <<schFile, schTick, schFired, schDeleted, schOut, bridgeVars,
                 clsVars, prVars, stoVars, splVars, gateVars>>

\* data/schedules.json as the process finds it: created empty by
\* loadSchedules, or left by an earlier run or an edit, here with one job
\* whose cron the parser rejects
StartStores ==
  {<<>>,
   <<[id |-> 1, cron |-> BadCron, spaceName |-> OTHER_SPACE, enabled |-> TRUE,
      nextRun |-> 0]>>}

InitSched ==
  /\ BridgeIdle /\ ClsOff /\ PrOff /\ StoOff /\ SplOff /\ GateOff
  /\ schFile \in StartStores
  /\ schNow = 0
  /\ schTick = TickIdle
  /\ schFired = [i \in 1..MaxCmds |-> <<>>]
  /\ schDeleted = [c \in Convs |-> {}]
  /\ schOut = NoOut

NextSched ==
  \/ \E c \in Convs : CmdList(c)
  \/ \E c \in Convs, id \in 1..MaxJobs : CmdUnschedule(c, id)
  \/ \E c \in Convs, cron \in Crons \cup {BadCron} : CmdSchedule(c, cron)
  \/ SchedTick
  \/ \E d \in 0..MaxDur, ok \in BOOLEAN : SchedExecEnd(d, ok)
  \/ SchedSendFail
  \/ \E wr \in BOOLEAN : SchedSendDone(wr)
  \/ ClockTick
  \/ \E c \in Convs : LoopFree /\ DispatchChat(1, c)
  \/ LoopFree /\ Close(1, TRUE, "none", MsgReply)

SpecSched == InitSched /\ [][NextSched]_vars

\* ------------------------------------------------- scheduler properties
\* t is the first occurrence of cron strictly after time from
FirstOccAfter(cron, from, t) ==
  /\ t > from
  /\ IsOcc(cron, t)
  /\ \A u \in (from + 1)..(t - 1) : ~IsOcc(cron, u)

\* a schedule command has just been handled
Commanded == schOut'.n = schOut.n + 1

\* C11: once /unschedule n from a space has reported job n deleted, no later
\* /schedules from that space lists n (unless a new job n was created since),
\* also when a scheduler pass interleaves.
C11_DeletedStaysAbsent ==
  schOut.kind = "list" => schOut.ids \cap schDeleted[schOut.space] = {}

\* C12: /schedule with a valid cron expression appends an enabled job of the
\* requesting space whose nextRun is the first occurrence of the expression
\* strictly after the time of the command; only an invalid expression is
\* refused.
C12_CreateNextRun ==
  [][Commanded =>
       /\ (schOut'.kind = "created") =>
            (/\ Len(schFile') = Len(schFile) + 1
             /\ SubSeq(schFile', 1, Len(schFile)) = schFile
             /\ LET job == schFile'[Len(schFile')] IN
                  /\ job.enabled
                  /\ job.spaceName = schOut'.space
                  /\ job.id = schOut'.id
                  /\ job.cron = schOut'.cron
                  /\ ValidCron(job.cron)
                  /\ FirstOccAfter(job.cron, schNow, job.nextRun))
       /\ (schOut'.kind = "invalid") =>
            (~ValidCron(schOut'.cron) /\ schFile' = schFile)]_vars

C12_Witness ==
  /\ schOut.kind = "created"
  /\ schNow > 0
  /\ IsOcc(schOut.cron, schNow)
  /\ \E i \in 1..Len(schFile) :
       /\ schFile[i].id = schOut.id
       /\ schFile[i].cron = MaxPeriod
       /\ schFile[i].nextRun = schNow + MaxPeriod

\* C13: in the store persisted by a finished pass, every enabled job that
\* has fired has nextRun equal to the first occurrence of its cron strictly
\* after the time it last fired.
C13_NextRunAfterLastFire ==
  schTick.phase = "idle" =>
    \A i \in 1..Len(schFile) :
      (schFile[i].enabled /\ schFired[schFile[i].id] # <<>>) =>
        FirstOccAfter(schFile[i].cron, schFired[schFile[i].id][1],
                      schFile[i].nextRun)

\* C18: while the claude run of a scheduled job is in flight, no interactive
\* or heartbeat invocation for the job's space is in flight.
C18_ScheduledNeverOverlaps ==
  schTick.phase = "exec" =>
    InFlight(schTick.schedules[schTick.idx].spaceName) = {}

\* C20: /unschedule n from space c removes exactly the job n of c when there
\* is one, and otherwise reports not-found and leaves the store unchanged; no
\* command from c changes the jobs of another space.
C20_UnscheduleOwnOnly ==
  [][Commanded =>
       LET c == schOut'.space
           id == schOut'.id
           Others(f) == SelectSeq(f, LAMBDA j : j.spaceName # c)
           Mine == {i \in 1..Len(schFile) :
                      schFile[i].id = id /\ schFile[i].spaceName = c}
       IN /\ Others(schFile') = Others(schFile)
          /\ (schOut'.kind = "deleted") =>
               (\E i \in Mine : schFile' = splice(schFile, i))
          /\ (schOut'.kind = "notfound") => (Mine = {} /\ schFile' = schFile)
          /\ (schOut'.kind \in {"list", "none", "invalid"})
               => (schFile' = schFile)]_vars

C20_Witness ==
  /\ schOut.kind = "notfound"
  /\ \E i \in 1..Len(schFile) :
       schFile[i].id = schOut.id /\ schFile[i].spaceName # schOut.space

\* the jobs of the store file with their flags
Jobs(f) == {f[i] : i \in 1..Len(f)}

\* C21: /schedules from a space returns exactly the enabled jobs of that
\* space, never a disabled job and never a job of another space, and the
\* "none" answer exactly when there is no such job; it changes nothing.
C21_ListExactlyEnabledOwn ==
  [][(Commanded /\ schOut'.kind \in {"list", "none"}) =>
       /\ \A j \in Jobs(schFile) :
            (j.id \in schOut'.ids) <=>
              (j.spaceName = schOut'.space /\ j.enabled)
       /\ schOut'.ids \subseteq {j.id : j \in Jobs(schFile)}
       /\ (schOut'.kind = "none") <=>
            (\A j \in Jobs(schFile) :
               j.spaceName # schOut'.space \/ ~j.enabled)
       /\ schFile' = schFile]_vars

C21_Witness ==
  /\ schOut.kind = "list"
  /\ \E j \in Jobs(schFile) :
       /\ j.spaceName = schOut.space
       /\ ~j.enabled
       /\ j.id \notin schOut.ids

\* C22: /schedule with a cron expression the parser rejects answers that the
\* expression is invalid and stores nothing: the store is the same and no id
\* is used up.
C22_InvalidCronStoresNothing ==
  [][(Commanded /\ schOut'.kind \in {"created", "invalid"}
        /\ schOut'.cron = BadCron) =>
       /\ schOut'.kind = "invalid"
       /\ schFile' = schFile
       /\ Max({0} \cup {j.id : j \in Jobs(schFile')})
            = Max({0} \cup {j.id : j \in Jobs(schFile)})]_vars

C22_Witness ==
  /\ schOut.kind = "invalid"
  /\ schOut.cron = BadCron
  /\ \E j \in Jobs(schFile) : j.cron \in Crons

\* the ids of the store are pairwise different
UniqueIds(f) == \A i, k \in 1..Len(f) : f[i].id = f[k].id => i = k

\* C23 as stated: no two jobs share an id, and a new job's id is greater
\* than the id of every job created before it, the deleted ones included.
C23_IdAboveAllEarlier ==
  /\ [](UniqueIds(schFile))
  /\ [][(Commanded /\ schOut'.kind = "created") =>
          \A id \in {j.id : j \in Jobs(schFile)}
                      \cup UNION {schDeleted[c] : c \in Convs} :
            schOut'.id > id]_vars

\* C23: no two jobs of the store share an id, and a new job gets the
\* greatest id of the store plus one (1 for an empty store): greater than the
\* id of every job then in the store.
C23_IdIsMaxPlusOne ==
  /\ [](UniqueIds(schFile))
  /\ [][(Commanded /\ schOut'.kind = "created") =>
          /\ schOut'.id = Max({0} \cup {j.id : j \in Jobs(schFile)}) + 1
          /\ \A j \in Jobs(schFile) : schOut'.id > j.id
          /\ schFile'[Len(schFile')].id = schOut'.id]_vars

C23_Witness ==
  /\ schOut.kind = "created"
  /\ schOut.id = 3
  /\ Len(schFile) = 2
  /\ schFile[2].id = 3

\* a pass starts the claude run of a job
Fires == schTick'.phase = "exec" /\ schTick.phase # "exec"

\* the list a pass goes on with after the job at schTick.idx: the list of
\* the pass while it lasts, the written file when it has ended
AfterJob == IF schTick'.phase = "exec" THEN schTick'.schedules ELSE schFile'

\* the pass is done with the job at schTick.idx (and has not died writing)
JobDone ==
  /\ schTick.phase = "sending"
  /\ schTick'.phase \in {"exec", "idle"}

\* C24: when the claude run of a due job fails, the failure message goes to
\* the job's space, the pass still sets nextRun to the next occurrence and
\* leaves the job enabled, and no pass fires a job before its nextRun.
C24_FailedRunRescheduled ==
  [][/\ (schTick.phase = "sending" /\ schTick.ran = "fail") =>
          (/\ schTick.sent = "failure"
           /\ schTick.to = schTick.schedules[schTick.idx].spaceName)
     /\ (JobDone /\ schTick.ran = "fail"
           /\ schTick.schedules[schTick.idx].cron \in Crons) =>
          LET i == schTick.idx IN
            /\ Len(AfterJob) = Len(schTick.schedules)
            /\ AfterJob[i].id = schTick.schedules[i].id
            /\ AfterJob[i].enabled
            /\ FirstOccAfter(AfterJob[i].cron, schNow, AfterJob[i].nextRun)
     /\ Fires =>
          schTick'.schedules[schTick'.idx].nextRun <= schTick'.now]_vars

C24_Witness ==
  /\ schTick.phase = "idle"
  /\ \E j \in Jobs(schFile) :
       /\ j.cron \in Crons
       /\ j.enabled
       /\ Len(schFired[j.id]) = 2
       /\ schFired[j.id][2] = "fail"
       /\ j.nextRun > schNow

\* C25: when setting nextRun fails because the cron expression of the job
\* does not parse, the job stays in the store with enabled = false, and no
\* pass fires a disabled job.
C25_BadCronDisabled ==
  [][/\ (JobDone /\ schTick.schedules[schTick.idx].cron = BadCron) =>
          LET i == schTick.idx IN
            /\ Len(AfterJob) = Len(schTick.schedules)
            /\ AfterJob[i] =
                 [schTick.schedules[i] EXCEPT !.enabled = FALSE]
     /\ Fires => schTick'.schedules[schTick'.idx].enabled]_vars

C25_Witness ==
  /\ schTick.phase = "idle"
  /\ \E j \in Jobs(schFile) :
       /\ j.cron = BadCron
       /\ ~j.enabled
       /\ schFired[j.id] # <<>>
       /\ schNow > schFired[j.id][1]

\* C30: the scheduler loop goes on after every pass (tick() always reaches
\* its setTimeout), whatever fails in the pass.
C30_LoopNeverStops == schTick.phase # "stopped"

\* job i of list s is enabled and its nextRun has passed at time now
DueAt(s, i, now) == s[i].enabled /\ s[i].nextRun <= now

\* list t is list s but for the job at index i
SameBut(s, t, i) ==
  /\ Len(t) = Len(s)
  /\ \A k \in 1..Len(s) : k # i => t[k] = s[k]

\* C32: a pass works on the list it read and on the time it started. It
\* fires a job only if the job is enabled and its nextRun is at or before
\* that time, goes through the list in order without skipping a due job and
\* without coming back to one, changes no job but the one it has just fired,
\* and writes the store only when it has fired a job.
C32_FiresExactlyDue ==
  [][/\ Fires =>
          LET s == schTick'.schedules
              d == schTick'.idx
              now == schTick'.now
              from == IF schTick.phase = "idle" THEN 0 ELSE schTick.idx
          IN /\ d \in (from + 1)..Len(s)
             /\ DueAt(s, d, now)
             /\ \A i \in (from + 1)..(d - 1) : ~DueAt(s, i, now)
             /\ IF schTick.phase = "idle"
                THEN s = schFile /\ now = schNow
                ELSE SameBut(schTick.schedules, s, from) /\ now = schTick.now
     /\ (schTick.phase = "sending" /\ schTick'.phase \in {"idle", "stopped"}) =>
          /\ \A i \in (schTick.idx + 1)..Len(schTick.schedules) :
                ~DueAt(schTick.schedules, i, schTick.now)
          /\ schTick'.phase = "idle"
               => SameBut(schTick.schedules, schFile', schTick.idx)
     /\ (schFile' # schFile) => (Commanded \/ schTick.phase = "sending")]_vars

C32_Witness ==
  /\ schTick.phase = "sending"
  /\ schTick.idx = 2
  /\ schTick.schedules[1].enabled
  /\ schTick.schedules[1].nextRun > schTick.now
  /\ schFired[schTick.schedules[1].id] = <<>>
  /\ schTick.schedules[1] = schFile[1]

\* C33: a pass of the scheduler starts claude without --resume, and no step
\* of a pass changes the stored session id of any space.
C33_FiringStateless ==
  [][schTick' # schTick =>
       /\ schTick'.resume = NoTok
       /\ sessions' = sessions]_vars

C33_Witness ==
  /\ schTick.phase = "exec"
  /\ schTick.resume = NoTok
  /\ sessions[schTick.schedules[schTick.idx].spaceName] # NoTok

\* C37: while the claude run of a scheduled job is in flight, a message
\* that arrives for another space can be dispatched.
C37_OthersServiced ==
  [](\A c \in Convs :
       (/\ schTick.phase = "exec"
        /\ st[1] = "new"
        /\ c # schTick.schedules[schTick.idx].spaceName)
         => ENABLED (LoopFree /\ DispatchChat(1, c)))

\* the ids of the jobs of the store file
Ids(f) == {f[i].id : i \in 1..Len(f)}

\* C38: a job leaves the store only by an /unschedule that reports it
\* deleted, and the write at the end of a pass keeps the jobs the store then
\* has: the ones created while the pass awaited a delivery stay, the ones
\* deleted meanwhile stay away.
C38_NoMutationLost ==
  [][/\ \A id \in Ids(schFile) \ Ids(schFile') :
          Commanded /\ schOut'.kind = "deleted" /\ schOut'.id = id
     /\ (schTick.phase = "sending" /\ schTick'.phase = "idle")
          => Ids(schFile') = Ids(schFile)]_vars

\* ---------------------------------------------------- transcript pruner
\* A line of the .jsonl transcript: ok is whether JSON.parse accepts it;
\* type "" and uuid 0 are a missing (falsy) field, parentUuid 0 is null.
SNAPSHOT == "file-history-snapshot"
EntryTypes == {"user", "assistant", SNAPSHOT, "system"}
\* the uuid of an entry that is not in the transcript
OtherId == MaxLog + 1
Shapes ==
  (EntryTypes \X {"null", "prev", "other"})
    \cup {<<"<unparseable>", "null">>, <<"<notype>", "null">>,
          <<"<nouuid>", "null">>}

\* the line of shape sh at position i; the uuid of a line is its position
MkLine(sh, i) ==
  CASE sh[1] = "<unparseable>" ->
         [ok |-> FALSE, type |-> "", uuid |-> 0, parentUuid |-> 0]
    [] sh[1] = "<notype>" ->
         [ok |-> TRUE, type |-> "", uuid |-> i, parentUuid |-> 0]
    [] sh[1] = "<nouuid>" ->
         [ok |-> TRUE, type |-> "user", uuid |-> 0, parentUuid |-> 0]
    [] OTHER ->
         [ok |-> TRUE, type |-> sh[1], uuid |-> i,
          parentUuid |-> CASE sh[2] = "null" -> 0
                           [] sh[2] = "prev" -> i - 1
                           [] OTHER -> OtherId]

\* the parse loop accepts the line: JSON.parse succeeds and type and uuid
\* are truthy
WellFormed_NoUuidCheck(line) == line.ok /\ line.type # ""

WellFormed(line) == line.ok /\ line.type # "" /\ line.uuid # 0

\* the backward scan: the index of the last entry of a type, 0 for -1
lastIndexOf_Default(entries, type) ==
  LET hit == {i \in 1..Len(entries) : entries[i].type = type}
  IN IF hit = {} THEN Len(entries) ELSE Max(hit)

lastIndexOf(entries, type) ==
  LET hit == {i \in 1..Len(entries) : entries[i].type = type}
  IN IF hit = {} THEN 0 ELSE Max(hit)

indicesToRemove_AllSnapshots(entries, lastUserIdx, lastAssistantIdx) ==
  {lastUserIdx, lastAssistantIdx}
    \cup {i \in 1..Len(entries) : entries[i].type = SNAPSHOT}

indicesToRemove(entries, lastUserIdx, lastAssistantIdx) ==
  LET removeFrom == Min({lastUserIdx, lastAssistantIdx})
  IN {lastUserIdx, lastAssistantIdx}
       \cup {i \in removeFrom..Len(entries) : entries[i].type = SNAPSHOT}

\* entries.filter((_, i) => !indicesToRemove.has(i))
RECURSIVE filterOut(_, _, _)
filterOut(entries, remove, i) ==
  IF i > Len(entries) THEN <<>>
  ELSE (IF i \in remove THEN <<>> ELSE <<entries[i]>>)
         \o filterOut(entries, remove, i + 1)

\* the parentUuid loop over the pruned entries
fixParents(pruned) ==
  [i \in 1..Len(pruned) |->
     IF i > 1 /\ pruned[i].parentUuid # 0
          /\ pruned[i].parentUuid # pruned[i - 1].uuid
     THEN [pruned[i] EXCEPT !.parentUuid = pruned[i - 1].uuid]
     ELSE pruned[i]]

\* pruneHeartbeatFromTranscript: whether it writes the file, and what
pruneHeartbeatFromTranscript(sessionId, exists, lines) ==
  LET lastUserIdx == lastIndexOf(lines, "user")
      lastAssistantIdx == lastIndexOf(lines, "assistant")
      keep == [write |-> FALSE, log |-> lines]
  IN IF sessionId = NoTok THEN keep
     ELSE IF ~exists THEN keep
     ELSE IF Len(lines) < 2 THEN keep
     ELSE IF \E i \in 1..Len(lines) : ~WellFormed(lines[i]) THEN keep
     ELSE IF lastUserIdx = 0 \/ lastAssistantIdx = 0 THEN keep
     ELSE [write |-> TRUE,
           log |-> fixParents(filterOut(lines,
                     indicesToRemove(lines, lastUserIdx, lastAssistantIdx), 1))]

InitPrune ==
  /\ InitBridge
  /\ sessions[OTHER_SPACE] = NoTok
  /\ ClsOff
  /\ SchOff
  /\ PrOff
  /\ StoOff
  /\ SplOff /\ GateOff

\* the claude CLI appends a line to the transcript of the session
TranscriptAppend(sh) ==
  /\ prRuns = 0
  /\ Len(prLog) < MaxLog
  /\ prExists' = TRUE
  /\ prLog' = Append(prLog, MkLine(sh, Len(prLog) + 1))
  /\ prOrig' = prLog'
  /\ UNCHANGED <<prWrites, prRuns, bridgeVars, clsVars, schVars,
                 stoVars, splVars, gateVars>>

\* tick() calls pruneHeartbeatFromTranscript(config.spaceName)
Prune ==
  /\ prRuns < MaxPrunes
  /\ LET r == pruneHeartbeatFromTranscript(getSession(sessions, HB_SPACE),
                                           prExists, prLog)
     IN /\ prLog' = r.log
        /\ prWrites' = IF r.write THEN prWrites + 1 ELSE prWrites
  /\ prRuns' = prRuns + 1
  /\ UNCHANGED <<prExists, prOrig, bridgeVars, clsVars, schVars,
                 stoVars, splVars, gateVars>>

\* ------------------------------------- the transcript of a live session
\* The heartbeat's space has a stored session; every claude process started
\* with --resume for it appends its exchange to the transcript of that
\* session: first the user entry with the prompt, then the assistant entry.
\* prOrig is everything the processes wrote, prLog the file.
\* The entries of caller k have the uuids 2k - 1 (user) and 2k (assistant).
Owner(uuid) == (uuid + 1) \div 2
EntriesOf(k) ==
  Cardinality({i \in 1..Len(prOrig) : Owner(prOrig[i].uuid) = k})

InitHist ==
  /\ InitBridge
  /\ sessions[HB_SPACE] # NoTok
  /\ sessions[OTHER_SPACE] = NoTok
  /\ ClsOff /\ SchOff /\ StoOff /\ SplOff /\ GateOff
  /\ prExists = TRUE
  /\ prLog = <<>>
  /\ prOrig = <<>>
  /\ prWrites = 0
  /\ prRuns = 0

\* the claude process of caller k appends its next entry
HistAppend(k) ==
  /\ proc[k].ps = "run"
  /\ proc[k].tok # NoTok
  /\ EntriesOf(k) < 2
  /\ LET entry == [ok |-> TRUE,
                   type |-> IF EntriesOf(k) = 0 THEN "user" ELSE "assistant",
                   uuid |-> 2 * (k - 1) + EntriesOf(k) + 1,
                   parentUuid |-> IF prLog = <<>> THEN 0
                                  ELSE prLog[Len(prLog)].uuid]
     IN /\ prLog' = Append(prLog, entry)
        /\ prOrig' = Append(prOrig, entry)
  /\ UNCHANGED <<prExists, prWrites, prRuns, bridgeVars, clsVars, schVars,
                 stoVars, splVars, gateVars>>

\* the process of caller k has written its exchange and closes with a
\* result; handleEvent delivers the reply, tick() classifies the response
HistClose(k, text) ==
  /\ EntriesOf(k) = 2
  /\ Close(k, TRUE, "none", text)

\* the process of tick k has written its exchange and closes with a result,
\* and tick() takes the branch of isHeartbeatOk(response): in the same turn
\* of the event loop it calls pruneHeartbeatFromTranscript(config.spaceName).
\* (Which responses isHeartbeatOk sends there is SpecClassify.)
HistPrune(k) ==
  /\ k \in Ticks
  /\ st[k] = "awaiting"
  /\ proc[k].ps = "run"
  /\ EntriesOf(k) = 2
  /\ sessions' = CloseSessions(sessions, conv[k], proc[k], TRUE, FreshTok(k))
  /\ proc' = [proc EXCEPT ![k] = NoProc]
  /\ st' = [st EXCEPT ![k] = TickSt("prune")]
  /\ hbTimers' = hbTimers + Rearm(k, TickSt("prune"))
  /\ hbResp' = [hbResp EXCEPT ![k] = SENTINEL]
  /\ LET r == pruneHeartbeatFromTranscript(
                 getSession(sessions', conv[k]), prExists, prLog)
     IN /\ prLog' = r.log
        /\ prWrites' = IF r.write THEN prWrites + 1 ELSE prWrites
  /\ prRuns' = prRuns + 1
  /\ UNCHANGED <<conv, launchLog, cause, resetMark, hbTicks, prExists,
                 prOrig, clsVars, schVars, stoVars, splVars, gateVars>>

NextHist ==
  \/ \E m \in Msgs : DispatchChat(m, HB_SPACE)
  \/ HbTick(TRUE, TRUE)
  \/ \E k \in Callers : HistAppend(k)
  \/ \E k \in Callers, text \in HbReplies \cup {MsgReply} :
       /\ text \in (IF k \in Ticks THEN HbReplies ELSE {MsgReply})
       /\ HistClose(k, text)
  \/ \E k \in Ticks : HistPrune(k)
  \/ \E k \in Ticks, ok \in BOOLEAN : HbSendDone(k, ok)

SpecHist == InitHist /\ [][NextHist]_vars

NextPrune ==
  \/ \E sh \in Shapes : TranscriptAppend(sh)
  \/ Prune

SpecPrune == InitPrune /\ [][NextPrune]_vars

\* ----------------------------------------------------- pruner properties
WellFormedEntry(line) == line.ok /\ line.type # "" /\ line.uuid # 0
Uuids(log) == [i \in 1..Len(log) |-> log[i].uuid]
Parseable(log) == \A i \in 1..Len(log) : WellFormedEntry(log[i])
HasToken == sessions[HB_SPACE] # NoTok
UserAt(log) == {i \in 1..Len(log) : log[i].type = "user"}
AssistantAt(log) == {i \in 1..Len(log) : log[i].type = "assistant"}
SnapshotsAfter(log, i) ==
  {x \in (i + 1)..Len(log) : log[x].type = SNAPSHOT}

\* C14: one prune of a fully parseable log of N entries whose last user
\* entry i precedes its last assistant entry j, with k snapshot entries after
\* i, leaves exactly the other N-2-k entries, in their original order.
C14_PrunedEntries ==
  (/\ prRuns = 1 /\ HasToken /\ prExists /\ Parseable(prOrig)
   /\ UserAt(prOrig) # {} /\ AssistantAt(prOrig) # {}
   /\ Max(UserAt(prOrig)) < Max(AssistantAt(prOrig)))
  => LET i == Max(UserAt(prOrig))
         j == Max(AssistantAt(prOrig))
         gone == {i, j} \cup SnapshotsAfter(prOrig, i)
     IN /\ prWrites = 1
        /\ Len(prLog) = Len(prOrig) - 2 - Cardinality(SnapshotsAfter(prOrig, i))
        /\ Uuids(prLog) = SelectSeq(Uuids(prOrig), LAMBDA u : u \notin gone)
        /\ \A x \in 1..Len(prLog) :
             prLog[x].type = prOrig[prLog[x].uuid].type

C14_Witness ==
  /\ prRuns = 1 /\ HasToken /\ prExists /\ Parseable(prOrig)
  /\ Len(prOrig) = MaxLog
  /\ prOrig[1].type = SNAPSHOT
  /\ UserAt(prOrig) = {2}
  /\ prOrig[3].type = SNAPSHOT
  /\ AssistantAt(prOrig) = {MaxLog}
  /\ Len(prLog) = MaxLog - 3

\* C15: after a prune that rewrote the log, every entry but the first has a
\* parentUuid equal to the uuid of the entry before it.
C15_ChainRepaired ==
  prWrites > 0 =>
    \A i \in 2..Len(prLog) : prLog[i].parentUuid = prLog[i - 1].uuid

\* C16: with no session id, with no transcript file, or with a line that does
\* not parse or lacks its type or uuid, the pruner writes nothing and the log
\* stays exactly as it was.
C16_FailClosed ==
  (~HasToken \/ ~prExists \/ ~Parseable(prOrig))
    => (prLog = prOrig /\ prWrites = 0)

C16_Witness ==
  /\ prRuns > 0 /\ HasToken /\ prExists
  /\ Len(prOrig) = MaxLog
  /\ WellFormedEntry(prOrig[1]) /\ prOrig[1].type = "user"
  /\ WellFormedEntry(prOrig[2]) /\ prOrig[2].type = "assistant"
  /\ ~prOrig[MaxLog].ok
  /\ prLog = prOrig

\* C17: a log with no user entry or no assistant entry is left unchanged by
\* the pruner, however often it is applied.
C17_NothingToPrune ==
  (UserAt(prOrig) = {} \/ AssistantAt(prOrig) = {})
    => (prLog = prOrig /\ prWrites = 0)

C17_Witness ==
  /\ prRuns > 1 /\ HasToken /\ prExists /\ Parseable(prOrig)
  /\ Len(prOrig) > 1
  /\ UserAt(prOrig) # {}
  /\ AssistantAt(prOrig) = {}
  /\ prLog = prOrig

\* the uuids of the entries that were in the log before the prunes and are
\* not in it any more
Removed == {prOrig[i].uuid : i \in 1..Len(prOrig)}
             \ {prLog[i].uuid : i \in 1..Len(prLog)}

\* C35: after a prune that rewrote the log, no remaining entry, the first
\* one included, has a parentUuid that is the uuid of a removed entry.
C35_NoDanglingParent ==
  prWrites > 0 =>
    \A i \in 1..Len(prLog) : prLog[i].parentUuid \notin Removed

\* ------------------------------------------- classification of a response
InitClassify ==
  /\ BridgeIdle
  /\ SchOff
  /\ PrOff
  /\ StoOff
  /\ SplOff /\ GateOff
  /\ clsResp \in Responses
  /\ clsPhase = "in"
  /\ clsOk = FALSE
  /\ clsOutcome = "none"

\* tick(), lines 198-205, applied to the response clsResp
Classify ==
  /\ clsPhase = "in"
  /\ clsPhase' = "out"
  /\ clsOk' = isHeartbeatOk(clsResp)
  /\ clsOutcome' = TickOutcome(clsResp)
  /\ UNCHANGED <<clsResp, bridgeVars, schVars, prVars, stoVars, splVars, gateVars>>

NextClassify == Classify

SpecClassify == InitClassify /\ [][NextClassify]_vars

\* C3: a response that is exactly HEARTBEAT_OK is classified as the sentinel,
\* and the tick delivers no message for it.
C3_ExactSentinelSuppressed ==
  (clsPhase = "out" /\ clsResp = SENTINEL) => (clsOk /\ clsOutcome # "deliver")

\* C4: a response of at most 300 characters that is HEARTBEAT_OK wrapped in
\* emphasis markers, backticks, hashes, quotes, newlines or whitespace is
\* classified as the sentinel and suppressed.
C4_WrappedSentinelSuppressed ==
  (/\ clsPhase = "out"
   /\ clsResp # SENTINEL
   /\ Len(clsResp) <= HEARTBEAT_MAX_LEN
   /\ IsWrappedSentinel(clsResp)) => (clsOk /\ clsOutcome = "prune")

\* C5: a response longer than 300 characters is never classified as the
\* sentinel, whatever it contains, and is delivered.
C5_LongNeverSentinel ==
  (clsPhase = "out" /\ Len(clsResp) > HEARTBEAT_MAX_LEN)
    => (~clsOk /\ clsOutcome = "deliver")

C5_Witness ==
  /\ clsPhase = "out"
  /\ Len(clsResp) > HEARTBEAT_MAX_LEN
  /\ IsWrappedSentinel(clsResp)
  /\ clsOutcome = "deliver"

\* ------------------------------------------------ the two store files
\* store operations modelled before the process is stopped
MaxOps == 3

\* the session ids setSession is called with for a space
StoreToks(c) == {OldTok(c), FreshTok(1)}

\* persist(): JSON.stringify(sessions, null, 2), the members of the object
\* as <<key, value>> pairs
persist_FirstOnly(sess) ==
  LET keys == {c \in Convs : sess[c] # NoTok}
  IN IF keys = {} THEN <<>> ELSE <<<<Min(keys), sess[Min(keys)]>>>>

persist(sess) ==
  SelectSeq([c \in 1..Cardinality(Convs) |-> <<c, sess[c]>>],
            LAMBDA mem : mem[2] # NoTok)

\* JSON.parse of a document: for a repeated key the last member wins
JSONparse(doc) ==
  [c \in Convs |->
     LET hit == {i \in 1..Len(doc) : doc[i][1] = c}
     IN IF hit = {} THEN NoTok ELSE doc[Max(hit)][2]]

\* loadSessions(): what it leaves in the map and in the file, or that it
\* throws (JSON.parse of a malformed file)
loadSessions(file) ==
  IF file.st = "absent"
  THEN [thrown |-> FALSE, sessions |-> EmptyMap,
        file |-> [st |-> "ok", doc |-> persist(EmptyMap)]]
  ELSE IF file.st = "malformed"
       THEN [thrown |-> TRUE, sessions |-> EmptyMap, file |-> file]
       ELSE [thrown |-> FALSE, sessions |-> JSONparse(file.doc),
             file |-> file]

\* loadSchedules(): writes [] when there is no file, and does not read an
\* existing one
loadSchedules(file) == IF file = "absent" THEN "ok" ELSE file

\* readSchedules(): the parsed file, or [] when reading or parsing throws
readSchedules(file) == IF file = "ok" THEN "file" ELSE "substituted"

\* writeFileSync: it returns, or throws leaving the file as it was, or
\* throws after truncating it
WriteOutcomes == {"ok", "refused", "torn"}

Written(file, doc, wr) ==
  IF wr = "ok" THEN [st |-> "ok", doc |-> doc]
  ELSE IF wr = "torn" THEN [st |-> "malformed", doc |-> <<>>]
  ELSE file

\* main(): loadSessions(), loadSchedules(), subscription, scheduler loop;
\* a throw ends in main().catch with process.exit(1)
Main ==
  /\ stoPhase = "down"
  /\ LET l == loadSessions(sessFile) IN
       /\ sessions' = l.sessions
       /\ sessFile' = l.file
       /\ IF l.thrown
          THEN /\ stoPhase' = "fatal"
               /\ UNCHANGED stoSched
          ELSE /\ stoPhase' = "up"
               /\ stoSched' = loadSchedules(stoSched)
  /\ stoBoot' = [sess |-> sessFile.st, sched |-> stoSched]
  /\ stoRet' = "none"
  /\ stoRead' = "none"
  /\ UNCHANGED <<stoLast, stoOps, conv, st, proc, launchLog, cause,
                 resetMark, hbTimers, hbTicks, hbResp, clsVars, schVars,
                 prVars, splVars, gateVars>>

\* setSession(spaceName, sessionId)
StoreSet(c, tok, wr) ==
  /\ stoPhase = "up"
  /\ stoOps < MaxOps
  /\ stoOps' = stoOps + 1
  /\ sessions' = setSession(sessions, c, tok)
  /\ sessFile' = Written(sessFile, persist(sessions'), wr)
  /\ stoRet' = IF wr = "ok" THEN "returned" ELSE "threw"
  /\ stoLast' = IF wr = "ok" THEN sessions' ELSE stoLast
  /\ UNCHANGED <<stoSched, stoPhase, stoBoot, stoRead, conv, st, proc,
                 launchLog, cause, resetMark, hbTimers, hbTicks, hbResp,
                 clsVars, schVars, prVars, splVars, gateVars>>

\* deleteSession(spaceName)
StoreDelete(c, wr) ==
  /\ stoPhase = "up"
  /\ stoOps < MaxOps
  /\ stoOps' = stoOps + 1
  /\ sessions' = deleteSession(sessions, c)
  /\ sessFile' = Written(sessFile, persist(sessions'), wr)
  /\ stoRet' = IF wr = "ok" THEN "returned" ELSE "threw"
  /\ stoLast' = IF wr = "ok" THEN sessions' ELSE stoLast
  /\ UNCHANGED <<stoSched, stoPhase, stoBoot, stoRead, conv, st, proc,
                 launchLog, cause, resetMark, hbTimers, hbTicks, hbResp,
                 clsVars, schVars, prVars, splVars, gateVars>>

\* a scheduler pass or /schedules reads the schedule store
StoreReadSchedules ==
  /\ stoPhase = "up"
  /\ stoRead' = readSchedules(stoSched)
  /\ UNCHANGED <<sessFile, stoSched, stoPhase, stoLast, stoRet, stoBoot,
                 stoOps, bridgeVars, clsVars, schVars, prVars, splVars,
                 gateVars>>

\* /schedule with a valid cron: readSchedules(), push,
\* writeSchedules(schedules)
StoreSchedule ==
  /\ stoPhase = "up"
  /\ stoOps < MaxOps
  /\ stoOps' = stoOps + 1
  /\ stoRead' = readSchedules(stoSched)
  /\ stoSched' = "ok"
  /\ UNCHANGED <<sessFile, stoPhase, stoLast, stoRet, stoBoot, bridgeVars,
                 clsVars, schVars, prVars, splVars, gateVars>>

\* the process ends (signal, crash, redeploy) between two operations; the
\* next process starts with let sessions = {}
Exit ==
  /\ stoPhase = "up"
  /\ stoPhase' = "down"
  /\ sessions' = EmptyMap
  /\ UNCHANGED <<sessFile, stoSched, stoLast, stoRet, stoBoot, stoRead,
                 stoOps, conv, st, proc, launchLog, cause, resetMark,
                 hbTimers, hbTicks, hbResp, clsVars, schVars, prVars,
                 splVars, gateVars>>

\* the files the first process finds: none, a malformed one, or what an
\* earlier run persisted
StartFiles ==
  {NoFile, [st |-> "malformed", doc |-> <<>>]}
    \cup {[st |-> "ok",
           doc |-> persist([c \in Convs |->
                              IF c \in S THEN OldTok(c) ELSE NoTok])] :
            S \in SUBSET Convs}

InitStore ==
  /\ BridgeIdle /\ ClsOff /\ SchOff /\ PrOff /\ SplOff /\ GateOff
  /\ sessFile \in StartFiles
  /\ stoSched \in {"absent", "malformed", "ok"}
  /\ stoPhase = "down"
  /\ stoLast = JSONparse(sessFile.doc)
  /\ stoRet = "none"
  /\ stoBoot = [sess |-> "absent", sched |-> "absent"]
  /\ stoRead = "none"
  /\ stoOps = 0

NextStore ==
  \/ Main
  \/ \E c \in Convs, wr \in WriteOutcomes :
       \E tok \in StoreToks(c) : StoreSet(c, tok, wr)
  \/ \E c \in Convs, wr \in WriteOutcomes : StoreDelete(c, wr)
  \/ StoreReadSchedules
  \/ StoreSchedule
  \/ Exit

SpecStore == InitStore /\ [][NextStore]_vars

\* no key occurs twice in the document
OneTokenEach(doc) == \A i, k \in 1..Len(doc) : doc[i][1] = doc[k][1] => i = k

\* C26: after every setSession or deleteSession that has returned, the
\* persisted document is the in-memory map with at most one token for a
\* space, and a process started after it reloads exactly the map as of that
\* mutation.
C26_WriteThrough ==
  /\ []((stoPhase = "up" /\ stoRet = "returned") =>
          /\ sessFile.st = "ok"
          /\ OneTokenEach(sessFile.doc)
          /\ \A c \in Convs :
               /\ sessions[c] # NoTok =>
                    (\E i \in 1..Len(sessFile.doc) :
                       sessFile.doc[i] = <<c, sessions[c]>>)
               /\ sessions[c] = NoTok =>
                    (\A i \in 1..Len(sessFile.doc) : sessFile.doc[i][1] # c)
          /\ stoLast = sessions)
  /\ [][(stoPhase = "down" /\ stoPhase' # "down" /\ stoRet = "returned") =>
          (stoPhase' = "up" /\ sessions' = stoLast)]_vars

C26_Witness ==
  /\ stoPhase = "up"
  /\ stoOps >= 2
  /\ stoRet = "none"
  /\ stoBoot.sess = "ok"
  /\ sessions[HB_SPACE] = FreshTok(1)
  /\ sessions[OTHER_SPACE] = NoTok
  /\ Len(sessFile.doc) = 1

\* C27: when main() finds a malformed session store or a malformed schedule
\* store the process stops at startup: it is never up, reading the schedule
\* store as empty, after such a start.
C27_MalformedStoreFatal ==
  stoPhase = "up" =>
    /\ stoBoot.sess # "malformed"
    /\ ~(stoBoot.sched = "malformed" /\ stoRead = "substituted")

\* --------------------------------------------------------- splitMessage
\* texts of up to MaxText characters, limits of up to MaxM
MaxText == 6
MaxM == 3

NL == "\n"
Texts == UNION {[1..n -> {"a", NL}] : n \in 0..MaxText}

\* remaining.lastIndexOf("\n", maxLen) as a position counted from 1: the
\* last newline at a position up to maxLen + 1 (0: none)
lastIndexOfNewline(remaining, maxLen) ==
  LET hit == {i \in 1..Min({Len(remaining), maxLen + 1}) : remaining[i] = NL}
  IN IF hit = {} THEN 0 ELSE Max(hit)

\* splitAt of the loop body: the number of characters of the chunk
splitAt_KeepsNewline(remaining, maxLen) ==
  LET pos == lastIndexOfNewline(remaining, maxLen)
  IN IF pos <= 1 THEN maxLen ELSE pos

splitAt(remaining, maxLen) ==
  LET pos == lastIndexOfNewline(remaining, maxLen)
  IN IF pos <= 1 THEN maxLen ELSE pos - 1

\* .replace(/^\n/, "")
dropLeadingNewline_AnyChar(str) == IF str # <<>> THEN Tail(str) ELSE str

dropLeadingNewline(str) ==
  IF str # <<>> /\ Head(str) = NL THEN Tail(str) ELSE str

\* splitMessage(text, maxLen) up to its loop
SplitCall ==
  /\ splPhase = "in"
  /\ IF Len(splText) <= splMax
     THEN /\ splChunks' = <<splText>>
          /\ splPhase' = "done"
          /\ UNCHANGED splRem
     ELSE /\ splRem' = splText
          /\ splPhase' = "loop"
          /\ UNCHANGED splChunks
  /\ UNCHANGED <<splText, splMax, splCuts, bridgeVars, clsVars, schVars,
                 prVars, stoVars, gateVars>>

\* one test of the while condition and one run of the loop body
SplitStep ==
  /\ splPhase = "loop"
  /\ IF Len(splRem) = 0
     THEN /\ splPhase' = "done"
          /\ UNCHANGED <<splRem, splChunks, splCuts>>
     ELSE IF Len(splRem) <= splMax
          THEN /\ splChunks' = Append(splChunks, splRem)
               /\ splPhase' = "done"
               /\ UNCHANGED <<splRem, splCuts>>
          ELSE LET at == splitAt(splRem, splMax)
                   rest == SubSeq(splRem, at + 1, Len(splRem))
               IN /\ splChunks' = Append(splChunks, SubSeq(splRem, 1, at))
                  /\ splRem' = dropLeadingNewline(rest)
                  /\ splCuts' = Append(splCuts, Len(splRem') < Len(rest))
                  /\ UNCHANGED splPhase
  /\ UNCHANGED <<splText, splMax, bridgeVars, clsVars, schVars, prVars,
                 stoVars, gateVars>>

InitSplit ==
  /\ BridgeIdle /\ ClsOff /\ SchOff /\ PrOff /\ StoOff /\ GateOff
  /\ splText \in Texts
  /\ splMax \in 1..MaxM
  /\ splRem = <<>>
  /\ splChunks = <<>>
  /\ splCuts = <<>>
  /\ splPhase = "in"

NextSplit == SplitCall \/ SplitStep

\* the call runs to its end: nothing else runs on the thread meanwhile
SpecSplit == InitSplit /\ [][NextSplit]_vars /\ WF_vars(NextSplit)

\* C28: for every text and every limit M >= 1, splitMessage terminates (each
\* run of the loop body shortens remaining) and every chunk has at most M
\* characters.
C28_ChunksFit ==
  /\ [](\A i \in 1..Len(splChunks) : Len(splChunks[i]) <= splMax)
  /\ [][(splPhase = "loop" /\ splPhase' = "loop") =>
          Len(splRem') < Len(splRem)]_vars
  /\ <>(splPhase = "done")

C28_Witness ==
  /\ splPhase = "done"
  /\ Len(splText) = MaxText
  /\ Len(splChunks) >= 3
  /\ \E i \in 1..Len(splChunks) : Len(splChunks[i]) = splMax
  /\ \E i \in 1..Len(splCuts) : splCuts[i]
  /\ \E i \in 1..Len(splCuts) : ~splCuts[i]

\* the chunks put together again, with a newline after each chunk whose
\* split consumed one
RECURSIVE Rejoin(_, _)
Rejoin(chunks, cuts) ==
  IF chunks = <<>> THEN <<>>
  ELSE Head(chunks)
         \o (IF cuts # <<>> /\ Head(cuts) THEN <<NL>> ELSE <<>>)
         \o Rejoin(Tail(chunks), IF cuts = <<>> THEN <<>> ELSE Tail(cuts))

RECURSIVE SumLen(_)
SumLen(chunks) ==
  IF chunks = <<>> THEN 0 ELSE Len(Head(chunks)) + SumLen(Tail(chunks))

\* C29: the chunks, joined with one newline at each split that consumed a
\* newline and nothing at a hard cut, are the text again; a split consumes
\* at most one newline and no other character is dropped.
C29_SplitLossless ==
  /\ [](splPhase = "done" => Rejoin(splChunks, splCuts) = splText)
  /\ [](splPhase = "loop" =>
          Rejoin(splChunks, splCuts) \o splRem = splText)
  /\ [](splPhase = "done" =>
          SumLen(splChunks)
            + Cardinality({i \in 1..Len(splCuts) : splCuts[i]})
            = Len(splText))

C29_Witness ==
  /\ splPhase = "done"
  /\ Len(splChunks) >= 2
  /\ \E i \in 1..Len(splCuts) : splCuts[i]
  /\ \E i \in 1..Len(splCuts) : ~splCuts[i]
  /\ splText[1] = NL
  /\ Rejoin(splChunks, splCuts) = splText

\* ---------------------------------------------------- heartbeat gate
\* data/heartbeat.md is a text over Chars, at most MaxDoc characters long
MaxDoc == 6
Chars == {"#", " ", "-", "x", NL}
RuleChars == {"-", "*", "_"}
\* \s of the regular expressions
IsSpace(ch) == ch \in {" ", NL}
\* ^ and $ under the m flag, at the position before character i
AtLineStart(t, i) == i = 1 \/ t[i - 1] = NL
AtLineEnd(t, i) == i = Len(t) + 1 \/ t[i] = NL

\* the number of characters of the set S that t has in a row from i on
RECURSIVE Run(_, _, _)
Run(t, i, S) ==
  IF i <= Len(t) /\ t[i] \in S THEN 1 + Run(t, i + 1, S) ELSE 0

\* /^#+\s.*$/gm tried at position i: the position after the match (0: no
\* match). \s takes any white space, a newline too; . takes no newline
headerMatch(t, i) ==
  LET n == Run(t, i, {"#"})
      j == i + n
  IN IF AtLineStart(t, i) /\ n >= 1 /\ j <= Len(t) /\ IsSpace(t[j])
     THEN j + 1 + Run(t, j + 1, Chars \ {NL})
     ELSE 0

\* /^[-*_]{3,}\s*$/gm tried at position i: the position after the match
\* (0: no match). \s* is greedy and gives back until $ holds
ruleMatch(t, i) ==
  LET n == Run(t, i, RuleChars)
      p == i + n
      q == p + Run(t, p, {" ", NL})
      ends == {r \in p..q : AtLineEnd(t, r)}
  IN IF AtLineStart(t, i) /\ n >= 3 /\ ends # {} THEN Max(ends) ELSE 0

\* raw.replace(/^#+\s.*$/gm, "") from position i on
RECURSIVE stripHeaders(_, _)
stripHeaders(t, i) ==
  IF i > Len(t) THEN <<>>
  ELSE LET e == headerMatch(t, i)
       IN IF e # 0 THEN stripHeaders(t, e)
          ELSE <<t[i]>> \o stripHeaders(t, i + 1)

\* .replace(/^[-*_]{3,}\s*$/gm, "") from position i on
RECURSIVE stripRules(_, _)
stripRules(t, i) ==
  IF i > Len(t) THEN <<>>
  ELSE LET e == ruleMatch(t, i)
       IN IF e # 0 THEN stripRules(t, e)
          ELSE <<t[i]>> \o stripRules(t, i + 1)

\* String.prototype.trim
trim(t) ==
  LET keep == {i \in 1..Len(t) : ~IsSpace(t[i])}
  IN IF keep = {} THEN <<>> ELSE SubSeq(t, Min(keep), Max(keep))

\* the null of loadHeartbeatChecklist
NoChecklist == <<"<null>">>

loadHeartbeatChecklist(doc) ==
  IF ~doc.exists THEN NoChecklist
  ELSE LET raw == doc.text
           stripped == trim(stripRules(stripHeaders(raw, 1), 1))
       IN IF stripped = <<>> THEN NoChecklist ELSE trim(raw)

\* Number(formatter.format(now)) with hour: "numeric", hour12: false, at
\* hour h of the day: h, and at midnight 0 or 24, as the ICU data of the
\* runtime has it
FormatHour(h) == IF h = 0 THEN {0, 24} ELSE {h}

\* isWithinActiveHours, hour being what the formatter made of the time
isWithinActiveHours_EndInclusive(start, end, hour) ==
  hour >= start /\ hour <= end

isWithinActiveHours(start, end, hour) == hour >= start /\ hour < end

\* the hours of the day and the HEARTBEAT_ACTIVE_HOURS the gate is run on
Hours == {0, 6, 7, 22, 23}
Windows == {<<7, 23>>, <<0, 6>>, <<0, 24>>}

\* data/heartbeat.md is created or grows by a character
GateWrite(ch) ==
  /\ hbTicks = 0
  /\ Len(gDoc.text) < MaxDoc
  /\ gDoc' = [exists |-> TRUE, text |-> Append(gDoc.text, ch)]
  /\ UNCHANGED <<gHour, gWin, bridgeVars, clsVars, schVars, prVars, stoVars,
                 splVars>>

\* the timer of the heartbeat fires: tick() up to its await of callClaudeFn
GateTick ==
  \E hour \in FormatHour(gHour) :
    HbTick(isWithinActiveHours(gWin[1], gWin[2], hour),
           loadHeartbeatChecklist(gDoc) # NoChecklist)

InitGate ==
  /\ BridgeIdle /\ ClsOff /\ SchOff /\ PrOff /\ StoOff /\ SplOff
  /\ gHour \in Hours
  /\ gWin \in Windows
  /\ gDoc \in {[exists |-> x, text |-> <<>>] : x \in BOOLEAN}

NextGate ==
  \/ \E ch \in Chars : GateWrite(ch)
  \/ GateTick

SpecGate == InitGate /\ [][NextGate]_vars

\* the lines of a text
RECURSIVE LinesOf(_)
LinesOf(t) ==
  LET nl == {i \in 1..Len(t) : t[i] = NL}
  IN IF nl = {} THEN <<t>>
     ELSE <<SubSeq(t, 1, Min(nl) - 1)>>
            \o LinesOf(SubSeq(t, Min(nl) + 1, Len(t)))

\* a section header: one or more "#", then a blank, then anything
IsHeaderLine(l) ==
  \E n \in 1..(Len(l) - 1) : (\A i \in 1..n : l[i] = "#") /\ l[n + 1] = " "

\* a horizontal rule: three or more of - * _, then blanks only
IsRuleLine(l) ==
  \E n \in 3..Len(l) :
    /\ \A i \in 1..n : l[i] \in RuleChars
    /\ \A i \in (n + 1)..Len(l) : l[i] = " "

IsBlankLine(l) == \A i \in 1..Len(l) : l[i] = " "

\* the text has a line that is neither header nor rule nor blank
HasContent(t) ==
  \E k \in 1..Len(LinesOf(t)) :
    LET l == LinesOf(t)[k]
    IN ~IsHeaderLine(l) /\ ~IsRuleLine(l) /\ ~IsBlankLine(l)

\* the tick may invoke claude
GateOpen ==
  /\ gWin[1] <= gHour /\ gHour < gWin[2]
  /\ gDoc.exists
  /\ HasContent(gDoc.text)

\* C34: a tick starts a claude process only if the hour is in
\* [activeStart, activeEnd) and data/heartbeat.md exists and has a line that
\* is neither a header nor a horizontal rule nor blank; otherwise, and
\* whenever it skips, it starts no process, sends and prunes nothing, changes
\* no session and arms the timer of the next tick.
C34_GatedInvocation ==
  [][\A k \in Ticks :
       (st[k] = "new" /\ st'[k] # "new") =>
         /\ st'[k] \in {"window", "empty", "awaiting"}
         /\ (st'[k] = "awaiting") <=> (proc'[k].ps = "run")
         /\ (proc'[k].ps = "run") => GateOpen
         /\ (st'[k] \in {"window", "empty"}) =>
              /\ proc' = proc
              /\ launchLog' = launchLog
              /\ sessions' = sessions
              /\ hbResp' = hbResp
              /\ prLog' = prLog /\ prWrites' = prWrites
              /\ hbTimers = 1 /\ hbTimers' = 1]_vars

C34_Witness ==
  \E k \in Ticks :
    /\ st[k] = "awaiting"
    /\ proc[k].ps = "run"
    /\ gHour = gWin[1]
    /\ \E i \in 1..Len(LinesOf(gDoc.text)) : IsHeaderLine(LinesOf(gDoc.text)[i])
    /\ HasContent(gDoc.text)

====
